---- MODULE Spec2Model ----
(***************************************************************************)
(* A model of mintalyze (src/mintalyze/mintalyze.py): the Transaction      *)
(* record, the CSV loader and the filters of AccountHistory.               *)
(*                                                                         *)
(* Text that the program inspects character by character (the date and     *)
(* the amount column of a CSV row, a date given as a string) is a sequence *)
(* of characters; text it only compares or stores is a string. A character *)
(* is a one-character string when it is printable ASCII or one of \t, \n,  *)
(* \f, \r, and the name of its code point, "U+0663", otherwise.            *)
(*                                                                         *)
(* A date is a record [year, month, day]. A Decimal is the record           *)
(* [kind, sign, int, exp] of its sign, coefficient and exponent:           *)
(*   kind "finite"  (-1)^sign * int * 10^exp;                              *)
(*   kind "inf"     the infinity of that sign;                             *)
(*   kind "nan"     the quiet NaN of that sign, int its diagnostic;        *)
(*   kind "snan"    the signaling NaN of that sign, int its diagnostic.    *)
(* Coefficients and exponents outgrow the integers of TLC and are digit    *)
(* strings. Record equality is sameness of representation (3.5 is not      *)
(* 3.50); DecEq is Python's ==. An operation that can raise gives          *)
(* [raised, value].                                                        *)
(***************************************************************************)
EXTENDS Integers, Sequences, FiniteSets, TLC

VARIABLES
    objs,   \* the AccountHistory objects made so far; objs[i].transactions
            \* is a reference to a list
    lists,  \* the list objects: lists[r] is the content of the list r
    made,   \* history: how objs[i] was made (call, receiver, arguments)
    call,   \* history: the last call, its arguments and what it raised
    val     \* the value of the last expression over Transaction.__add__,
            \* __radd__, __lt__, __gt__

vars == <<objs, lists, made, call, val>>

----------------------------------------------------------------------------
(* Bounds of the model.                                                    *)

\* the longest list of transactions given to AccountHistory(...)
MaxLen == 2
\* the most data rows of a file of CsvFiles
MaxRows == 2
\* the most AccountHistory objects of one run
MaxObjs == 3

----------------------------------------------------------------------------
(* Text helpers.                                                           *)

\* [0-9] of a pattern
AsciiDigits == {"0", "1", "2", "3", "4", "5", "6", "7", "8", "9"}

\* the decimal digits outside ASCII (category Nd of Unicode 14.0, the
\* database of the interpreter): each row is the digits 0 .. 9 of one script
UnicodeDigits ==
    << <<"U+0660", "U+0661", "U+0662", "U+0663", "U+0664", "U+0665", "U+0666", "U+0667", "U+0668", "U+0669">>,
       <<"U+06F0", "U+06F1", "U+06F2", "U+06F3", "U+06F4", "U+06F5", "U+06F6", "U+06F7", "U+06F8", "U+06F9">>,
       <<"U+07C0", "U+07C1", "U+07C2", "U+07C3", "U+07C4", "U+07C5", "U+07C6", "U+07C7", "U+07C8", "U+07C9">>,
       <<"U+0966", "U+0967", "U+0968", "U+0969", "U+096A", "U+096B", "U+096C", "U+096D", "U+096E", "U+096F">>,
       <<"U+09E6", "U+09E7", "U+09E8", "U+09E9", "U+09EA", "U+09EB", "U+09EC", "U+09ED", "U+09EE", "U+09EF">>,
       <<"U+0A66", "U+0A67", "U+0A68", "U+0A69", "U+0A6A", "U+0A6B", "U+0A6C", "U+0A6D", "U+0A6E", "U+0A6F">>,
       <<"U+0AE6", "U+0AE7", "U+0AE8", "U+0AE9", "U+0AEA", "U+0AEB", "U+0AEC", "U+0AED", "U+0AEE", "U+0AEF">>,
       <<"U+0B66", "U+0B67", "U+0B68", "U+0B69", "U+0B6A", "U+0B6B", "U+0B6C", "U+0B6D", "U+0B6E", "U+0B6F">>,
       <<"U+0BE6", "U+0BE7", "U+0BE8", "U+0BE9", "U+0BEA", "U+0BEB", "U+0BEC", "U+0BED", "U+0BEE", "U+0BEF">>,
       <<"U+0C66", "U+0C67", "U+0C68", "U+0C69", "U+0C6A", "U+0C6B", "U+0C6C", "U+0C6D", "U+0C6E", "U+0C6F">>,
       <<"U+0CE6", "U+0CE7", "U+0CE8", "U+0CE9", "U+0CEA", "U+0CEB", "U+0CEC", "U+0CED", "U+0CEE", "U+0CEF">>,
       <<"U+0D66", "U+0D67", "U+0D68", "U+0D69", "U+0D6A", "U+0D6B", "U+0D6C", "U+0D6D", "U+0D6E", "U+0D6F">>,
       <<"U+0DE6", "U+0DE7", "U+0DE8", "U+0DE9", "U+0DEA", "U+0DEB", "U+0DEC", "U+0DED", "U+0DEE", "U+0DEF">>,
       <<"U+0E50", "U+0E51", "U+0E52", "U+0E53", "U+0E54", "U+0E55", "U+0E56", "U+0E57", "U+0E58", "U+0E59">>,
       <<"U+0ED0", "U+0ED1", "U+0ED2", "U+0ED3", "U+0ED4", "U+0ED5", "U+0ED6", "U+0ED7", "U+0ED8", "U+0ED9">>,
       <<"U+0F20", "U+0F21", "U+0F22", "U+0F23", "U+0F24", "U+0F25", "U+0F26", "U+0F27", "U+0F28", "U+0F29">>,
       <<"U+1040", "U+1041", "U+1042", "U+1043", "U+1044", "U+1045", "U+1046", "U+1047", "U+1048", "U+1049">>,
       <<"U+1090", "U+1091", "U+1092", "U+1093", "U+1094", "U+1095", "U+1096", "U+1097", "U+1098", "U+1099">>,
       <<"U+17E0", "U+17E1", "U+17E2", "U+17E3", "U+17E4", "U+17E5", "U+17E6", "U+17E7", "U+17E8", "U+17E9">>,
       <<"U+1810", "U+1811", "U+1812", "U+1813", "U+1814", "U+1815", "U+1816", "U+1817", "U+1818", "U+1819">>,
       <<"U+1946", "U+1947", "U+1948", "U+1949", "U+194A", "U+194B", "U+194C", "U+194D", "U+194E", "U+194F">>,
       <<"U+19D0", "U+19D1", "U+19D2", "U+19D3", "U+19D4", "U+19D5", "U+19D6", "U+19D7", "U+19D8", "U+19D9">>,
       <<"U+1A80", "U+1A81", "U+1A82", "U+1A83", "U+1A84", "U+1A85", "U+1A86", "U+1A87", "U+1A88", "U+1A89">>,
       <<"U+1A90", "U+1A91", "U+1A92", "U+1A93", "U+1A94", "U+1A95", "U+1A96", "U+1A97", "U+1A98", "U+1A99">>,
       <<"U+1B50", "U+1B51", "U+1B52", "U+1B53", "U+1B54", "U+1B55", "U+1B56", "U+1B57", "U+1B58", "U+1B59">>,
       <<"U+1BB0", "U+1BB1", "U+1BB2", "U+1BB3", "U+1BB4", "U+1BB5", "U+1BB6", "U+1BB7", "U+1BB8", "U+1BB9">>,
       <<"U+1C40", "U+1C41", "U+1C42", "U+1C43", "U+1C44", "U+1C45", "U+1C46", "U+1C47", "U+1C48", "U+1C49">>,
       <<"U+1C50", "U+1C51", "U+1C52", "U+1C53", "U+1C54", "U+1C55", "U+1C56", "U+1C57", "U+1C58", "U+1C59">>,
       <<"U+A620", "U+A621", "U+A622", "U+A623", "U+A624", "U+A625", "U+A626", "U+A627", "U+A628", "U+A629">>,
       <<"U+A8D0", "U+A8D1", "U+A8D2", "U+A8D3", "U+A8D4", "U+A8D5", "U+A8D6", "U+A8D7", "U+A8D8", "U+A8D9">>,
       <<"U+A900", "U+A901", "U+A902", "U+A903", "U+A904", "U+A905", "U+A906", "U+A907", "U+A908", "U+A909">>,
       <<"U+A9D0", "U+A9D1", "U+A9D2", "U+A9D3", "U+A9D4", "U+A9D5", "U+A9D6", "U+A9D7", "U+A9D8", "U+A9D9">>,
       <<"U+A9F0", "U+A9F1", "U+A9F2", "U+A9F3", "U+A9F4", "U+A9F5", "U+A9F6", "U+A9F7", "U+A9F8", "U+A9F9">>,
       <<"U+AA50", "U+AA51", "U+AA52", "U+AA53", "U+AA54", "U+AA55", "U+AA56", "U+AA57", "U+AA58", "U+AA59">>,
       <<"U+ABF0", "U+ABF1", "U+ABF2", "U+ABF3", "U+ABF4", "U+ABF5", "U+ABF6", "U+ABF7", "U+ABF8", "U+ABF9">>,
       <<"U+FF10", "U+FF11", "U+FF12", "U+FF13", "U+FF14", "U+FF15", "U+FF16", "U+FF17", "U+FF18", "U+FF19">>,
       <<"U+104A0", "U+104A1", "U+104A2", "U+104A3", "U+104A4", "U+104A5", "U+104A6", "U+104A7", "U+104A8", "U+104A9">>,
       <<"U+10D30", "U+10D31", "U+10D32", "U+10D33", "U+10D34", "U+10D35", "U+10D36", "U+10D37", "U+10D38", "U+10D39">>,
       <<"U+11066", "U+11067", "U+11068", "U+11069", "U+1106A", "U+1106B", "U+1106C", "U+1106D", "U+1106E", "U+1106F">>,
       <<"U+110F0", "U+110F1", "U+110F2", "U+110F3", "U+110F4", "U+110F5", "U+110F6", "U+110F7", "U+110F8", "U+110F9">>,
       <<"U+11136", "U+11137", "U+11138", "U+11139", "U+1113A", "U+1113B", "U+1113C", "U+1113D", "U+1113E", "U+1113F">>,
       <<"U+111D0", "U+111D1", "U+111D2", "U+111D3", "U+111D4", "U+111D5", "U+111D6", "U+111D7", "U+111D8", "U+111D9">>,
       <<"U+112F0", "U+112F1", "U+112F2", "U+112F3", "U+112F4", "U+112F5", "U+112F6", "U+112F7", "U+112F8", "U+112F9">>,
       <<"U+11450", "U+11451", "U+11452", "U+11453", "U+11454", "U+11455", "U+11456", "U+11457", "U+11458", "U+11459">>,
       <<"U+114D0", "U+114D1", "U+114D2", "U+114D3", "U+114D4", "U+114D5", "U+114D6", "U+114D7", "U+114D8", "U+114D9">>,
       <<"U+11650", "U+11651", "U+11652", "U+11653", "U+11654", "U+11655", "U+11656", "U+11657", "U+11658", "U+11659">>,
       <<"U+116C0", "U+116C1", "U+116C2", "U+116C3", "U+116C4", "U+116C5", "U+116C6", "U+116C7", "U+116C8", "U+116C9">>,
       <<"U+11730", "U+11731", "U+11732", "U+11733", "U+11734", "U+11735", "U+11736", "U+11737", "U+11738", "U+11739">>,
       <<"U+118E0", "U+118E1", "U+118E2", "U+118E3", "U+118E4", "U+118E5", "U+118E6", "U+118E7", "U+118E8", "U+118E9">>,
       <<"U+11950", "U+11951", "U+11952", "U+11953", "U+11954", "U+11955", "U+11956", "U+11957", "U+11958", "U+11959">>,
       <<"U+11C50", "U+11C51", "U+11C52", "U+11C53", "U+11C54", "U+11C55", "U+11C56", "U+11C57", "U+11C58", "U+11C59">>,
       <<"U+11D50", "U+11D51", "U+11D52", "U+11D53", "U+11D54", "U+11D55", "U+11D56", "U+11D57", "U+11D58", "U+11D59">>,
       <<"U+11DA0", "U+11DA1", "U+11DA2", "U+11DA3", "U+11DA4", "U+11DA5", "U+11DA6", "U+11DA7", "U+11DA8", "U+11DA9">>,
       <<"U+16A60", "U+16A61", "U+16A62", "U+16A63", "U+16A64", "U+16A65", "U+16A66", "U+16A67", "U+16A68", "U+16A69">>,
       <<"U+16AC0", "U+16AC1", "U+16AC2", "U+16AC3", "U+16AC4", "U+16AC5", "U+16AC6", "U+16AC7", "U+16AC8", "U+16AC9">>,
       <<"U+16B50", "U+16B51", "U+16B52", "U+16B53", "U+16B54", "U+16B55", "U+16B56", "U+16B57", "U+16B58", "U+16B59">>,
       <<"U+1D7CE", "U+1D7CF", "U+1D7D0", "U+1D7D1", "U+1D7D2", "U+1D7D3", "U+1D7D4", "U+1D7D5", "U+1D7D6", "U+1D7D7">>,
       <<"U+1D7D8", "U+1D7D9", "U+1D7DA", "U+1D7DB", "U+1D7DC", "U+1D7DD", "U+1D7DE", "U+1D7DF", "U+1D7E0", "U+1D7E1">>,
       <<"U+1D7E2", "U+1D7E3", "U+1D7E4", "U+1D7E5", "U+1D7E6", "U+1D7E7", "U+1D7E8", "U+1D7E9", "U+1D7EA", "U+1D7EB">>,
       <<"U+1D7EC", "U+1D7ED", "U+1D7EE", "U+1D7EF", "U+1D7F0", "U+1D7F1", "U+1D7F2", "U+1D7F3", "U+1D7F4", "U+1D7F5">>,
       <<"U+1D7F6", "U+1D7F7", "U+1D7F8", "U+1D7F9", "U+1D7FA", "U+1D7FB", "U+1D7FC", "U+1D7FD", "U+1D7FE", "U+1D7FF">>,
       <<"U+1E140", "U+1E141", "U+1E142", "U+1E143", "U+1E144", "U+1E145", "U+1E146", "U+1E147", "U+1E148", "U+1E149">>,
       <<"U+1E2F0", "U+1E2F1", "U+1E2F2", "U+1E2F3", "U+1E2F4", "U+1E2F5", "U+1E2F6", "U+1E2F7", "U+1E2F8", "U+1E2F9">>,
       <<"U+1E950", "U+1E951", "U+1E952", "U+1E953", "U+1E954", "U+1E955", "U+1E956", "U+1E957", "U+1E958", "U+1E959">>,
       <<"U+1FBF0", "U+1FBF1", "U+1FBF2", "U+1FBF3", "U+1FBF4", "U+1FBF5", "U+1FBF6", "U+1FBF7", "U+1FBF8", "U+1FBF9">> >>

\* \d of a str pattern, and the digits Decimal(str) takes: every decimal
\* digit of Unicode
Digits ==
    AsciiDigits
    \cup {UnicodeDigits[r][k] : r \in DOMAIN UnicodeDigits, k \in 1..10}

\* the value of a decimal digit
DigitVal(c) ==
    IF c \in AsciiDigits
    THEN CASE c = "0" -> 0 [] c = "1" -> 1 [] c = "2" -> 2 [] c = "3" -> 3
           [] c = "4" -> 4 [] c = "5" -> 5 [] c = "6" -> 6 [] c = "7" -> 7
           [] c = "8" -> 8 [] c = "9" -> 9
    ELSE (CHOOSE k \in 1..10 :
              \E r \in DOMAIN UnicodeDigits : UnicodeDigits[r][k] = c) - 1

IsDigits(s) == \A i \in 1..Len(s) : s[i] \in Digits

\* int(s) of a string of decimal digits
RECURSIVE ToNat(_)
ToNat(s) ==
    IF s = <<>> THEN 0
    ELSE 10 * ToNat(SubSeq(s, 1, Len(s) - 1)) + DigitVal(s[Len(s)])

UpperCase == <<"A", "B", "C", "D", "E", "F", "G", "H", "I", "J", "K", "L", "M",
               "N", "O", "P", "Q", "R", "S", "T", "U", "V", "W", "X", "Y", "Z">>
LowerCase == <<"a", "b", "c", "d", "e", "f", "g", "h", "i", "j", "k", "l", "m",
               "n", "o", "p", "q", "r", "s", "t", "u", "v", "w", "x", "y", "z">>

\* the case of an ASCII letter; Decimal(str) knows no letter outside ASCII
LowerChar(c) ==
    IF \E i \in 1..26 : UpperCase[i] = c
    THEN LowerCase[CHOOSE i \in 1..26 : UpperCase[i] = c]
    ELSE c

Lower(s) == [i \in 1..Len(s) |-> LowerChar(s[i])]

\* the white space of str.strip() and str.isspace()
WhiteSpace ==
    {"\t", "\n", "U+000B", "\f", "\r", "U+001C", "U+001D", "U+001E", "U+001F",
     " ", "U+0085", "U+00A0", "U+1680", "U+2000", "U+2001", "U+2002", "U+2003",
     "U+2004", "U+2005", "U+2006", "U+2007", "U+2008", "U+2009", "U+200A",
     "U+2028", "U+2029", "U+202F", "U+205F", "U+3000"}

\* str.strip(): leading and trailing white space removed
RECURSIVE Strip(_)
Strip(s) ==
    IF s = <<>> THEN s
    ELSE IF s[1] \in WhiteSpace THEN Strip(Tail(s))
    ELSE IF s[Len(s)] \in WhiteSpace THEN Strip(SubSeq(s, 1, Len(s) - 1))
    ELSE s

----------------------------------------------------------------------------
(* datetime.strptime(string, '%m/%d/%Y').date()                             *)

NoDate == [year |-> 0, month |-> 0, day |-> 0]

IsLeap(y) == (y % 4 = 0) /\ ((y % 100 # 0) \/ (y % 400 = 0))

DaysInMonth(y, m) ==
    IF m = 2 THEN (IF IsLeap(y) THEN 29 ELSE 28)
    ELSE IF m \in {4, 6, 9, 11} THEN 30 ELSE 31

\* %m: 1[0-2]|0[1-9]|[1-9]
MonthText(s) ==
    \/ Len(s) = 2 /\ s[1] = "1" /\ s[2] \in {"0", "1", "2"}
    \/ Len(s) = 2 /\ s[1] = "0" /\ s[2] \in (AsciiDigits \ {"0"})
    \/ Len(s) = 1 /\ s[1] \in (AsciiDigits \ {"0"})

\* %d: 3[0-1]|[1-2]\d|0[1-9]|[1-9]| [1-9]
DayText(s) ==
    \/ Len(s) = 2 /\ s[1] = "3" /\ s[2] \in {"0", "1"}
    \/ Len(s) = 2 /\ s[1] \in {"1", "2"} /\ s[2] \in Digits
    \/ Len(s) = 2 /\ s[1] = "0" /\ s[2] \in (AsciiDigits \ {"0"})
    \/ Len(s) = 1 /\ s[1] \in (AsciiDigits \ {"0"})
    \/ Len(s) = 2 /\ s[1] = " " /\ s[2] \in (AsciiDigits \ {"0"})

DayVal(s) == IF s[1] = " " THEN DigitVal(s[2]) ELSE ToNat(s)

\* %Y: \d\d\d\d
YearText(s) == Len(s) = 4 /\ IsDigits(s)

\* Transaction.parse_date: [raised, date]; raised is "none" or "ValueError"
parse_date(string) ==
    LET slashes == {i \in 1..Len(string) : string[i] = "/"}
    IN  IF Cardinality(slashes) # 2
        THEN [raised |-> "ValueError", date |-> NoDate]
        ELSE
          LET p1 == CHOOSE i \in slashes : \A j \in slashes : i <= j
              p2 == CHOOSE i \in slashes : \A j \in slashes : j <= i
              mm == SubSeq(string, 1, p1 - 1)
              dd == SubSeq(string, p1 + 1, p2 - 1)
              yy == SubSeq(string, p2 + 1, Len(string))
          IN  IF MonthText(mm) /\ DayText(dd) /\ YearText(yy)
                 /\ ToNat(yy) >= 1
                 /\ DayVal(dd) <= DaysInMonth(ToNat(yy), ToNat(mm))
              THEN [raised |-> "none",
                    date |-> [year |-> ToNat(yy), month |-> ToNat(mm),
                              day |-> DayVal(dd)]]
              ELSE [raised |-> "ValueError", date |-> NoDate]

\* datetime.date comparison
DateLT(a, b) ==
    \/ a.year < b.year
    \/ a.year = b.year /\ a.month < b.month
    \/ a.year = b.year /\ a.month = b.month /\ a.day < b.day

DateLE(a, b) == a = b \/ DateLT(a, b)

----------------------------------------------------------------------------
(* Python's int, where it outgrows the integers of TLC: a natural is the    *)
(* sequence of its decimal digits, the most significant first and no zero   *)
(* in front (0 is <<0>>); an integer is [neg, mag], and 0 is not negative.  *)

Front(s) == SubSeq(s, 1, Len(s) - 1)

Zeros(n) == [i \in 1..n |-> 0]

Min(a, b) == IF a <= b THEN a ELSE b

Max(a, b) == IF a >= b THEN a ELSE b

\* str.lstrip('0')
LStrip0(d) ==
    IF \A i \in 1..Len(d) : d[i] = 0 THEN <<>>
    ELSE SubSeq(d, CHOOSE i \in 1..Len(d) :
                       d[i] # 0 /\ \A j \in 1..(i - 1) : d[j] = 0,
                Len(d))

\* d with zeros in front, n digits in all
PadLeft(d, n) ==
    [i \in 1..n |-> IF i <= n - Len(d) THEN 0 ELSE d[i - (n - Len(d))]]

\* str(int(d)) of a digit string d
NatNorm(d) == IF LStrip0(d) = <<>> THEN <<0>> ELSE LStrip0(d)

\* the digits of a natural of TLC
RECURSIVE NatOf(_)
NatOf(n) == IF n < 10 THEN <<n>> ELSE Append(NatOf(n \div 10), n % 10)

\* the natural of TLC of a few digits
RECURSIVE NatVal(_)
NatVal(d) == IF d = <<>> THEN 0 ELSE 10 * NatVal(Front(d)) + d[Len(d)]

\* a < b of digit strings without zeros in front
NatLT(a, b) ==
    \/ Len(a) < Len(b)
    \/ /\ Len(a) = Len(b)
       /\ \E i \in 1..Len(a) : a[i] < b[i] /\ \A j \in 1..(i - 1) : a[j] = b[j]

\* the carry into the digit i of a + b, two digit strings of one length: a
\* digit below i overflows, and every digit between is a 9
Carry(a, b, i) ==
    \E j \in (i + 1)..Len(a) :
        a[j] + b[j] >= 10 /\ \A k \in (i + 1)..(j - 1) : a[k] + b[k] = 9

SumDigits(a, b) ==
    [i \in 1..Len(a) |->
        (a[i] + b[i] + (IF Carry(a, b, i) THEN 1 ELSE 0)) % 10]

NatAdd(a, b) ==
    NatNorm(SumDigits(PadLeft(a, Max(Len(a), Len(b)) + 1),
                      PadLeft(b, Max(Len(a), Len(b)) + 1)))

\* the borrow from the digit i of a - b, two digit strings of one length
Borrow(a, b, i) ==
    \E j \in (i + 1)..Len(a) :
        a[j] < b[j] /\ \A k \in (i + 1)..(j - 1) : a[k] = b[k]

DifferenceDigits(a, b) ==
    [i \in 1..Len(a) |->
        (a[i] - b[i] - (IF Borrow(a, b, i) THEN 1 ELSE 0) + 10) % 10]

\* a - b for a >= b
NatSub(a, b) == NatNorm(DifferenceDigits(a, PadLeft(b, Len(a))))

\* the integer n of TLC
BigInt(n) == [neg |-> n < 0, mag |-> NatOf(IF n < 0 THEN -n ELSE n)]

\* the integer of TLC of a small integer
IntVal(x) == IF x.neg THEN -NatVal(x.mag) ELSE NatVal(x.mag)

IntNeg(x) == IF x.mag = <<0>> THEN x ELSE [neg |-> ~x.neg, mag |-> x.mag]

IntAdd(x, y) ==
    IF x.neg = y.neg THEN [neg |-> x.neg, mag |-> NatAdd(x.mag, y.mag)]
    ELSE IF x.mag = y.mag THEN BigInt(0)
    ELSE IF NatLT(x.mag, y.mag)
    THEN [neg |-> y.neg, mag |-> NatSub(y.mag, x.mag)]
    ELSE [neg |-> x.neg, mag |-> NatSub(x.mag, y.mag)]

IntSub(x, y) == IntAdd(x, IntNeg(y))

IntLT(x, y) ==
    IF x.neg # y.neg THEN x.neg
    ELSE IF x.neg THEN NatLT(y.mag, x.mag)
    ELSE NatLT(x.mag, y.mag)

IntLE(x, y) == x = y \/ IntLT(x, y)

IntMin(x, y) == IF IntLT(y, x) THEN y ELSE x

IntMax(x, y) == IF IntLT(x, y) THEN y ELSE x

----------------------------------------------------------------------------
(* decimal.Decimal, as the C module has it. A Decimal is the record         *)
(* [kind, sign, int, exp] of its as_tuple(): sign 0 or 1, the coefficient   *)
(* int a digit string, and the exponent exp an integer [neg, mag].          *)

\* the default context: InvalidOperation, DivisionByZero and Overflow are
\* trapped, rounding is ROUND_HALF_EVEN and clamp is 0
prec == 28
Emax == 999999
Emin == -999999
Etiny == Emin - prec + 1
Etop == Emax - prec + 1

\* the limits of a Decimal made of a string, exactly: MAX_EMAX, and the
\* least exponent MIN_EMIN - (MAX_PREC - 1)
MaxEmax == [neg |-> FALSE, mag |-> [i \in 1..18 |-> 9]]
MinEtiny == IntSub(IntNeg(MaxEmax), IntAdd(MaxEmax, BigInt(-1)))

Finite(sign, int, exp) ==
    [kind |-> "finite", sign |-> sign, int |-> int, exp |-> exp]

\* the Decimal of the integer num of TLC, places digits after the point
Dec(num, places) ==
    Finite(IF num < 0 THEN 1 ELSE 0, NatOf(IF num < 0 THEN -num ELSE num),
           BigInt(-places))

Zero == Dec(0, 0)

Inf(sign) ==
    [kind |-> "inf", sign |-> sign, int |-> <<0>>, exp |-> BigInt(0)]

\* the quiet NaN; payload is the digit string of the diagnostic, <<>> for none
NaN(sign, payload) ==
    [kind |-> "nan", sign |-> sign, int |-> payload, exp |-> BigInt(0)]

\* the signaling NaN
sNaN(sign, payload) ==
    [kind |-> "snan", sign |-> sign, int |-> payload, exp |-> BigInt(0)]

IsNaN(x) == x.kind \in {"nan", "snan"}

\* not x
IsZero(x) == x.kind = "finite" /\ x.int = <<0>>

\* Decimal.adjusted(): the exponent of the first digit
Adjusted(int, exp) == IntAdd(exp, BigInt(Len(int) - 1))

\* the first position of the character c in s, Len(s) + 1 when there is none
FirstIndex(s, c) ==
    IF \E i \in 1..Len(s) : s[i] = c
    THEN CHOOSE i \in 1..Len(s) : s[i] = c /\ \A j \in 1..(i - 1) : s[j] # c
    ELSE Len(s) + 1

\* the sign bit of a text
SignOf(s) == IF s # <<>> /\ s[1] = "-" THEN 1 ELSE 0

Unsigned(s) == IF s # <<>> /\ s[1] \in {"-", "+"} THEN Tail(s) ELSE s

\* the values of the digits of a text
DigitVals(s) == [i \in 1..Len(s) |-> DigitVal(s[i])]

\* \d* (\. \d*)? with a digit somewhere: the integer part ip, the fraction fp
MantissaOk(ip, fp) == IsDigits(ip) /\ IsDigits(fp) /\ Len(ip) + Len(fp) >= 1

\* (E [-+]? \d+)?: ex is what follows the E
ExponentOk(present, ex) ==
    present => (Unsigned(ex) # <<>> /\ IsDigits(Unsigned(ex)))

\* the exponent that is written
Exponent(present, ex) ==
    IF present /\ NatNorm(DigitVals(Unsigned(ex))) # <<0>>
    THEN [neg |-> SignOf(ex) = 1, mag |-> NatNorm(DigitVals(Unsigned(ex)))]
    ELSE BigInt(0)

\* the range of an exact Decimal: the exponent is MinEtiny at least, and the
\* adjusted exponent (of 0: the exponent) MaxEmax at most
InRange(int, exp) ==
    /\ IntLE(MinEtiny, exp)
    /\ IntLE(IF int = <<0>> THEN exp ELSE Adjusted(int, exp), MaxEmax)

\* the Decimal of sign, coefficient and exponent, when it is in range
DecimalExact(sign, int, exp) ==
    IF InRange(int, exp)
    THEN [raised |-> "none", value |-> Finite(sign, int, exp)]
    ELSE [raised |-> "InvalidOperation", value |-> Zero]

\* a number: sign, integer part, fraction, and the exponent ex when an E is
\* present
DecimalParts(sign, ip, fp, present, ex) ==
    IF MantissaOk(ip, fp) /\ ExponentOk(present, ex)
    THEN DecimalExact(sign, NatNorm(DigitVals(ip \o fp)),
                      IntSub(Exponent(present, ex), BigInt(Len(fp))))
    ELSE [raised |-> "InvalidOperation", value |-> Zero]

\* a number: mantissa man, and the exponent ex when an E is present
DecimalNumber(sign, man, present, ex) ==
    DecimalParts(sign, SubSeq(man, 1, FirstIndex(man, ".") - 1),
                 SubSeq(man, FirstIndex(man, ".") + 1, Len(man)), present, ex)

\* Inf(inity)?
IsInfText(s) ==
    s \in {<<"i", "n", "f">>, <<"i", "n", "f", "i", "n", "i", "t", "y">>}

\* NaN \d*
IsNaNText(s) ==
    /\ Len(s) >= 3
    /\ SubSeq(s, 1, 3) = <<"n", "a", "n">>
    /\ IsDigits(SubSeq(s, 4, Len(s)))

\* sNaN \d*
IsSNaNText(s) ==
    /\ Len(s) >= 4
    /\ SubSeq(s, 1, 4) = <<"s", "n", "a", "n">>
    /\ IsDigits(SubSeq(s, 5, Len(s)))

\* sign and the rest s, lower case
DecimalSigned(sign, s) ==
    IF IsInfText(s) THEN [raised |-> "none", value |-> Inf(sign)]
    ELSE IF IsNaNText(s)
    THEN [raised |-> "none",
          value |-> NaN(sign, LStrip0(DigitVals(SubSeq(s, 4, Len(s)))))]
    ELSE IF IsSNaNText(s)
    THEN [raised |-> "none",
          value |-> sNaN(sign, LStrip0(DigitVals(SubSeq(s, 5, Len(s)))))]
    ELSE DecimalNumber(sign, SubSeq(s, 1, FirstIndex(s, "e") - 1),
                       FirstIndex(s, "e") <= Len(s),
                       SubSeq(s, FirstIndex(s, "e") + 1, Len(s)))

DecimalClean(s) == DecimalSigned(SignOf(s), Unsigned(s))

\* decimal.Decimal(str): the numeric-string grammar, on
\* value.strip().replace("_", ""), the case of ASCII letters ignored and
\* every decimal digit of Unicode taken for its ASCII digit:
\*   [-+]? ( \d* (\. \d*)? (E [-+]? \d+)?  with a digit in the mantissa
\*         | Inf(inity)? | s?NaN \d* )
\* and then the range of the exponent.
\* [raised, value]; raised is "none" or "InvalidOperation"
Decimal(string) ==
    DecimalClean(Lower(SelectSeq(Strip(string), LAMBDA c : c # "_")))

\* the NaN x with its payload cut to the last prec digits
FixNaN(x) ==
    IF Len(x.int) > prec
    THEN [x EXCEPT !.int = LStrip0(SubSeq(x.int, Len(x.int) - prec + 1,
                                          Len(x.int)))]
    ELSE x

\* ROUND_HALF_EVEN: int, cut after its first `digits` digits, is rounded up
RoundUp(int, digits) ==
    /\ digits >= 0
    /\ digits < Len(int)
    /\ IF int[digits + 1] = 5 /\ \A i \in (digits + 2)..Len(int) : int[i] = 0
       THEN digits > 0 /\ int[digits] % 2 = 1
       ELSE int[digits + 1] >= 5

\* the coefficient int rounded to its first `digits` digits; fewer than none
\* is less than half a unit
RoundedCoeff(int, digits) ==
    IF digits <= 0
    THEN (IF RoundUp(int, digits) THEN <<1>> ELSE <<0>>)
    ELSE IF RoundUp(int, digits) THEN NatAdd(SubSeq(int, 1, digits), <<1>>)
    ELSE SubSeq(int, 1, digits)

\* the digits of x that stay when its exponent is raised to e, -1 for fewer
\* than none
KeptDigits(x, e) ==
    IF IntSub(Adjusted(x.int, x.exp), BigInt(e - 1)).neg THEN -1
    ELSE IntVal(IntSub(Adjusted(x.int, x.exp), BigInt(e - 1)))

\* the rounded coefficient at the exponent e: a carry into a digit more than
\* prec drops the last digit, and may overflow
FixCoeff(sign, coeff, e) ==
    IF Len(coeff) <= prec
    THEN [raised |-> "none", value |-> Finite(sign, coeff, BigInt(e))]
    ELSE IF e + 1 > Etop THEN [raised |-> "Overflow", value |-> Zero]
    ELSE [raised |-> "none", value |-> Finite(sign, Front(coeff), BigInt(e + 1))]

\* x, not zero and not above Emax, with e its least exponent
FixRound(x, e) ==
    IF IntLT(x.exp, BigInt(e))
    THEN FixCoeff(x.sign, RoundedCoeff(x.int, KeptDigits(x, e)), e)
    ELSE [raised |-> "none", value |-> x]

\* the least exponent of x in the context: prec digits, and Etiny
ExpMin(x) ==
    IntVal(IntMax(IntAdd(x.exp, BigInt(Len(x.int) - prec)), BigInt(Etiny)))

\* Decimal._fix: x rounded to the context, [raised, value]; raised is "none"
\* or "Overflow"
Fix(x) ==
    IF IsNaN(x) THEN [raised |-> "none", value |-> FixNaN(x)]
    ELSE IF x.kind = "inf" THEN [raised |-> "none", value |-> x]
    ELSE IF IsZero(x)
    THEN [raised |-> "none",
          value |-> Finite(x.sign, <<0>>,
                           IntMin(IntMax(x.exp, BigInt(Etiny)), BigInt(Emax)))]
    ELSE IF IntLT(BigInt(Emax), Adjusted(x.int, x.exp))
    THEN [raised |-> "Overflow", value |-> Zero]
    ELSE FixRound(x, ExpMin(x))

\* -x: [raised, value]. A signaling NaN raises; a quiet NaN is returned with
\* its sign; -0 is 0.
DecNeg(x) ==
    IF x.kind = "snan" THEN [raised |-> "InvalidOperation", value |-> Zero]
    ELSE IF x.kind = "nan" THEN [raised |-> "none", value |-> FixNaN(x)]
    ELSE IF IsZero(x) THEN Fix([x EXCEPT !.sign = 0])
    ELSE Fix([x EXCEPT !.sign = 1 - x.sign])

\* _normalize: where the operand of the lesser exponent, other, is far below
\* the precision of the sum, a 1 at this exponent stands for it
ShortcutExp(tmp) == IntAdd(tmp.exp, BigInt(Min(-1, Len(tmp.int) - prec - 2)))

Negligible(tmp, other) ==
    IntLT(Adjusted(other.int, other.exp), ShortcutExp(tmp))

\* the operand of the lesser exponent as it is added: [int, exp]
Small(tmp, other) ==
    IF Negligible(tmp, other) THEN [int |-> <<1>>, exp |-> ShortcutExp(tmp)]
    ELSE [int |-> other.int, exp |-> other.exp]

\* the coefficient of x at the exponent exp <= x.exp
PadZeros(x, exp) == x.int \o Zeros(IntVal(IntSub(x.exp, exp)))

\* the sum of two coefficients at the exponent exp, signs s1 and s2; exp0 is
\* the exponent of a sum that cancels
AddAligned(s1, i1, s2, i2, exp, exp0) ==
    IF s1 = s2 THEN Fix(Finite(s1, NatAdd(i1, i2), exp))
    ELSE IF i1 = i2 THEN Fix(Finite(0, <<0>>, exp0))
    ELSE IF NatLT(i1, i2) THEN Fix(Finite(s2, NatSub(i2, i1), exp))
    ELSE Fix(Finite(s1, NatSub(i1, i2), exp))

\* 0 + y for y not zero: y, with zeros down to the exponent of the 0, at
\* most prec + 1 of them
AddToZero(zero, y) ==
    Fix(Finite(y.sign,
               PadZeros(y, IntMax(IntMin(zero.exp, y.exp),
                                IntSub(y.exp, BigInt(prec + 1)))),
               IntMax(IntMin(zero.exp, y.exp),
                      IntSub(y.exp, BigInt(prec + 1)))))

\* x + y of finite numbers, rounded to the context
DecSum(x, y) ==
    IF IsZero(x) /\ IsZero(y)
    THEN Fix(Finite(Min(x.sign, y.sign), <<0>>, IntMin(x.exp, y.exp)))
    ELSE IF IsZero(x) THEN AddToZero(x, y)
    ELSE IF IsZero(y) THEN AddToZero(y, x)
    ELSE IF IntLT(x.exp, y.exp)
    THEN AddAligned(x.sign, Small(y, x).int,
                    y.sign, PadZeros(y, Small(y, x).exp),
                    Small(y, x).exp, x.exp)
    ELSE AddAligned(x.sign, PadZeros(x, Small(x, y).exp),
                    y.sign, Small(x, y).int,
                    Small(x, y).exp, y.exp)

\* x + y: [raised, value]; raised is "none", "InvalidOperation" or
\* "Overflow". A signaling NaN raises, and so do infinities of opposite
\* sign; a quiet NaN gives the first quiet NaN of the operands.
DecAdd(x, y) ==
    IF x.kind = "snan" \/ y.kind = "snan"
    THEN [raised |-> "InvalidOperation", value |-> Zero]
    ELSE IF x.kind = "nan" THEN [raised |-> "none", value |-> FixNaN(x)]
    ELSE IF y.kind = "nan" THEN [raised |-> "none", value |-> FixNaN(y)]
    ELSE IF x.kind = "inf" /\ y.kind = "inf" /\ x.sign # y.sign
    THEN [raised |-> "InvalidOperation", value |-> Zero]
    ELSE IF x.kind = "inf" THEN [raised |-> "none", value |-> x]
    ELSE IF y.kind = "inf" THEN [raised |-> "none", value |-> y]
    ELSE DecSum(x, y)

\* 1 for a sign bit of 0, -1 for 1
SignFactor(sign) == IF sign = 0 THEN 1 ELSE -1

\* the infinity of x: 1, -1, or 0 for a finite number
IsInfinity(x) == IF x.kind = "inf" THEN SignFactor(x.sign) ELSE 0

\* the comparison of two positive numbers of the same adjusted exponent:
\* their coefficients, with zeros down to the lesser exponent
CmpPadded(x, y) ==
    IF IntLT(y.exp, x.exp)
    THEN (IF PadZeros(x, y.exp) = y.int THEN 0
          ELSE IF NatLT(PadZeros(x, y.exp), y.int) THEN -1 ELSE 1)
    ELSE (IF x.int = PadZeros(y, x.exp) THEN 0
          ELSE IF NatLT(x.int, PadZeros(y, x.exp)) THEN -1 ELSE 1)

\* the comparison of two finite numbers, not zero, of one sign
CmpSameSign(x, y) ==
    IF Adjusted(x.int, x.exp) = Adjusted(y.int, y.exp)
    THEN SignFactor(x.sign) * CmpPadded(x, y)
    ELSE IF IntLT(Adjusted(y.int, y.exp), Adjusted(x.int, x.exp))
    THEN SignFactor(x.sign)
    ELSE -SignFactor(x.sign)

\* Decimal._cmp: -1, 0 or 1 as x is less than, equal to or greater than y,
\* neither a NaN
Cmp(x, y) ==
    IF x.kind = "inf" \/ y.kind = "inf"
    THEN (IF IsInfinity(x) = IsInfinity(y) THEN 0
          ELSE IF IsInfinity(x) < IsInfinity(y) THEN -1 ELSE 1)
    ELSE IF IsZero(x) THEN (IF IsZero(y) THEN 0 ELSE -SignFactor(y.sign))
    ELSE IF IsZero(y) THEN SignFactor(x.sign)
    ELSE IF x.sign # y.sign THEN SignFactor(x.sign)
    ELSE CmpSameSign(x, y)

\* x < y: [raised, truth]. An ordering comparison of a NaN, quiet or
\* signaling, raises.
DecLT(x, y) ==
    IF IsNaN(x) \/ IsNaN(y)
    THEN [raised |-> "InvalidOperation", truth |-> FALSE]
    ELSE [raised |-> "none", truth |-> Cmp(x, y) < 0]

\* x > y
DecGT(x, y) ==
    IF IsNaN(x) \/ IsNaN(y)
    THEN [raised |-> "InvalidOperation", truth |-> FALSE]
    ELSE [raised |-> "none", truth |-> Cmp(x, y) > 0]

\* x == y: [raised, truth]. A signaling NaN raises; a quiet NaN equals
\* nothing, itself included.
DecEq(x, y) ==
    IF x.kind = "snan" \/ y.kind = "snan"
    THEN [raised |-> "InvalidOperation", truth |-> FALSE]
    ELSE IF x.kind = "nan" \/ y.kind = "nan"
    THEN [raised |-> "none", truth |-> FALSE]
    ELSE [raised |-> "none", truth |-> Cmp(x, y) = 0]

----------------------------------------------------------------------------
(* class Transaction                                                        *)

Transaction(date, description, original_description, absolute_amount, type, category, account, labels, notes) ==
    [date |-> date, description |-> description,
     original_description |-> original_description,
     absolute_amount |-> absolute_amount, type |-> type,
     category |-> category, account |-> account, labels |-> labels,
     notes |-> notes]

is_debit(self) == self.type = "debit"

is_transfer(self) == self.category = "Transfer"

\* the property amount: [raised, value]
amount(self) ==
    IF is_debit(self) THEN DecNeg(self.absolute_amount)
    ELSE [raised |-> "none", value |-> self.absolute_amount]

\* An operand of + is a Transaction, [tx |-> t], or a number,
\* [num |-> d, type |-> "int", "Decimal" or "float"].
IsTransaction(x) == "tx" \in DOMAIN x

Number(d, type) == [num |-> d, type |-> type]

\* self + other: self.amount + other.amount, evaluated from the left; a
\* number has no attribute amount
__add__(self, other) ==
    IF amount(self).raised # "none" THEN amount(self)
    ELSE IF ~IsTransaction(other)
    THEN [raised |-> "AttributeError", value |-> Zero]
    ELSE IF amount(other.tx).raised # "none" THEN amount(other.tx)
    ELSE DecAdd(amount(self).value, amount(other.tx).value)

\* other + self: other + self.amount; a float and a Decimal do not add
__radd__(self, other) ==
    IF amount(self).raised # "none" THEN amount(self)
    ELSE IF IsTransaction(other)
    THEN __add__(other.tx, Number(amount(self).value, "Decimal"))
    ELSE IF other.type = "float"
    THEN [raised |-> "TypeError", value |-> Zero]
    ELSE DecAdd(other.num, amount(self).value)

\* self < other: self.amount < other.amount of two transactions,
\* [raised, truth]
__lt__(self, other) ==
    IF amount(self).raised # "none"
    THEN [raised |-> amount(self).raised, truth |-> FALSE]
    ELSE IF amount(other).raised # "none"
    THEN [raised |-> amount(other).raised, truth |-> FALSE]
    ELSE DecLT(amount(self).value, amount(other).value)

\* self > other: self.amount > other.amount
__gt__(self, other) ==
    IF amount(self).raised # "none"
    THEN [raised |-> amount(self).raised, truth |-> FALSE]
    ELSE IF amount(other).raised # "none"
    THEN [raised |-> amount(other).raised, truth |-> FALSE]
    ELSE DecGT(amount(self).value, amount(other).value)

\* Python's a + b on a Transaction and a number or a Transaction:
\* type(a).__add__ first; a number's __add__ does not know a Transaction
\* (NotImplemented), and then type(b).__radd__
PyAdd(a, b) ==
    IF IsTransaction(a) THEN __add__(a.tx, b) ELSE __radd__(b.tx, a)

\* the builtin sum(iterable): 0 + t1 + t2 + ... from the left
RECURSIVE sum(_)
sum(transactions) ==
    IF transactions = <<>> THEN [raised |-> "none", value |-> Zero]
    ELSE LET n    == Len(transactions)
             head == sum(SubSeq(transactions, 1, n - 1))
         IN  IF head.raised # "none" THEN head
             ELSE PyAdd(Number(head.value, "Decimal"), [tx |-> transactions[n]])

----------------------------------------------------------------------------
(* class AccountHistory                                                     *)

\* the columns of a row that _parse_row reads: row[0] .. row[8]
Columns == 9

NoTransaction == Transaction(NoDate, "", "", Zero, "", "", "", "", "")

\* the rest of _parse_row, once row[0] is parsed to the date d
ParseColumns(row, d) ==
    IF Len(row) < 4 THEN [raised |-> "IndexError", tx |-> NoTransaction]
    ELSE IF Decimal(row[4]).raised # "none"
    THEN [raised |-> Decimal(row[4]).raised, tx |-> NoTransaction]
    ELSE IF Len(row) < Columns
    THEN [raised |-> "IndexError", tx |-> NoTransaction]
    ELSE [raised |-> "none",
          tx |-> Transaction(d, row[2], row[3], Decimal(row[4]).value, row[5],
                             row[6], row[7], row[8], row[9])]

\* AccountHistory._parse_row, in its order of evaluation: [raised, tx]
_parse_row(row) ==
    IF Len(row) < 1 THEN [raised |-> "IndexError", tx |-> NoTransaction]
    ELSE IF parse_date(row[1]).raised # "none"
    THEN [raised |-> parse_date(row[1]).raised, tx |-> NoTransaction]
    ELSE ParseColumns(row, parse_date(row[1]).date)

\* __init__ as it would be if the test of include_transfers were lost
InitKeepsTransfers(transactions, include_transfers) == transactions

\* AccountHistory.__init__: the list bound to self.transactions
__init__(transactions, include_transfers) ==
    IF include_transfers THEN transactions
    ELSE SelectSeq(transactions, LAMBDA t : ~is_transfer(t))

\* the rows as they would be if the slice [1:] were lost
RawDataWithHeader(rows) == rows

\* [row for row in reader][1:]
raw_data(rows) == IF rows = <<>> THEN <<>> ELSE Tail(rows)

\* the exception of the first row that fails to parse, "none" when none does
RECURSIVE FirstRaised(_)
FirstRaised(data) ==
    IF data = <<>> THEN "none"
    ELSE IF _parse_row(Head(data)).raised # "none"
    THEN _parse_row(Head(data)).raised
    ELSE FirstRaised(Tail(data))

\* AccountHistory.from_csv on a file that csv.reader reads as `rows`:
\* [raised, transactions]
from_csv(rows, include_transfers) ==
    IF FirstRaised(raw_data(rows)) # "none"
    THEN [raised |-> FirstRaised(raw_data(rows)), transactions |-> <<>>]
    ELSE [raised |-> "none",
          transactions |->
              __init__([i \in 1..Len(raw_data(rows)) |->
                            _parse_row(raw_data(rows)[i]).tx],
                       include_transfers)]

\* A date argument is a datetime.date, [date |-> d], or a str, [str |-> s].
\* if isinstance(date, str): date = Transaction.parse_date(date)
AsDate(arg) ==
    IF "str" \in DOMAIN arg THEN parse_date(arg.str)
    ELSE [raised |-> "none", date |-> arg.date]

\* the condition of a date filter on the transaction t
Keep(op, t, date) ==
    CASE op = "after" -> DateLT(date, t.date)
      [] op = "on_or_after" -> DateLE(date, t.date)
      [] op = "before" -> DateLT(t.date, date)
      [] op = "on_or_before" -> DateLE(t.date, date)

\* return AccountHistory(t for t in self.transactions if <condition>)
DateFilter(op, transactions, arg) ==
    IF AsDate(arg).raised # "none"
    THEN [raised |-> AsDate(arg).raised, transactions |-> <<>>]
    ELSE [raised |-> "none",
          transactions |->
              __init__(SelectSeq(transactions,
                                 LAMBDA t : Keep(op, t, AsDate(arg).date)),
                       FALSE)]

\* after as it would be with the comparison negated: t.date <= date
AfterWrongWay(transactions, date) ==
    DateFilter("on_or_before", transactions, date)

after(transactions, date) == DateFilter("after", transactions, date)

on_or_after(transactions, date) ==
    DateFilter("on_or_after", transactions, date)

before(transactions, date) == DateFilter("before", transactions, date)

on_or_before(transactions, date) ==
    DateFilter("on_or_before", transactions, date)

debits(transactions) ==
    [raised |-> "none",
     transactions |-> __init__(SelectSeq(transactions, is_debit), FALSE)]

deposits(transactions) ==
    [raised |-> "none",
     transactions |->
         __init__(SelectSeq(transactions, LAMBDA t : ~is_debit(t)), FALSE)]

__len__(transactions) == Len(transactions)

----------------------------------------------------------------------------
(* The inputs of the model.                                                 *)

Jan01 == <<"0", "1", "/", "0", "1", "/", "2", "0", "2", "3">>
Jan02 == <<"0", "1", "/", "0", "2", "/", "2", "0", "2", "3">>
Jan03 == <<"0", "1", "/", "0", "3", "/", "2", "0", "2", "3">>
IsoJan01 == <<"2", "0", "2", "3", "-", "0", "1", "-", "0", "1">>

Date(y, m, d) == [year |-> y, month |-> m, day |-> d]

\* the transactions given to AccountHistory(...)
TxPool ==
    { Transaction(Date(2023, 1, 1), "Coffee", "", Dec(35, 1), "debit", "Food",
                  "Checking", "", ""),
      Transaction(Date(2023, 1, 3), "Paycheck", "", Dec(1000, 0), "credit",
                  "Income", "Checking", "", ""),
      Transaction(Date(2023, 1, 2), "To savings", "", Dec(20, 0), "debit",
                  "Transfer", "Checking", "", ""),
      Transaction(Date(2023, 1, 2), "Refund", "", Dec(35, 1), "credit", "Food",
                  "Checking", "", "") }

TxLists == UNION {[1..n -> TxPool] : n \in 0..MaxLen}

\* the date arguments of the filters: dates, and strings good and bad
DateArgs ==
    {[date |-> Date(2023, 1, 1)], [str |-> Jan02], [str |-> IsoJan01]}

NoArg == [date |-> NoDate]

Header ==
    << <<"D", "a", "t", "e">>, "Description", "Original Description",
       <<"A", "m", "o", "u", "n", "t">>, "Transaction Type", "Category",
       "Account Name", "Labels", "Notes" >>

Coffee ==
    <<Jan01, "Coffee", "", <<"3", ".", "5", "0">>, "debit", "Food",
      "Checking", "", "">>
Paycheck ==
    <<Jan02, "Paycheck", "", <<"1", "0", "0", "0", ".", "0", "0">>, "credit",
      "Income", "Checking", "", "">>
ToSavings ==
    <<Jan02, "To savings", "", <<"2", "0">>, "debit", "Transfer", "Checking",
      "", "">>
FromChecking ==
    <<Jan03, "From checking", "", <<"2", "0">>, "credit", "Transfer",
      "Savings", "", "">>

Refund ==
    <<Jan03, "Refund", "", <<"3", ".", "5", "0">>, "credit", "Food",
      "Checking", "", "">>

\* the rows of a well-formed export
GoodRows == {Coffee, Paycheck, ToSavings, FromChecking, Refund}

\* rows that are not: a negative amount, a tenth column, a missing column, a
\* date in another format, an amount that is no number (on a transfer, too),
\* a blank line, the amount NaN
Reversal ==
    <<Jan03, "Reversal", "", <<"-", "5", ".", "0", "0">>, "debit", "Food",
      "Checking", "", "">>
TenColumns == Coffee \o <<"extra">>
EightColumns == SubSeq(Paycheck, 1, 8)
IsoDated ==
    <<IsoJan01, "Coffee", "", <<"3", ".", "5", "0">>, "debit", "Food",
      "Checking", "", "">>
NoNumber ==
    <<Jan01, "Coffee", "", <<"a", "b", "c">>, "debit", "Food", "Checking",
      "", "">>
NoNumberTransfer ==
    <<Jan02, "To savings", "", <<>>, "debit", "Transfer", "Checking", "", "">>
BlankLine == <<>>
NaNAmount ==
    <<Jan01, "Coffee", "", <<"N", "a", "N">>, "credit", "Food", "Checking",
      "", "">>

\* rows that a spreadsheet would not write and the program takes: digits of
\* other scripts in the date and the amount, white space round the amount,
\* the amounts Infinity and sNaN, an amount of 29 digits and one next to
\* Emax, which arithmetic rounds or cannot hold
OtherDigits ==
    <<<<"0", "1", "/", "1", "U+0663", "/", "2", "0", "2", "U+FF13">>,
      "Coffee", "", <<"U+0661", "U+0662", ".", "U+0665">>, "debit", "Food",
      "Checking", "", "">>
Padded ==
    <<Jan02, "Coffee", "", <<"\t", "3", ".", "5", "U+00A0">>, "debit", "Food",
      "Checking", "", "">>
Infinite ==
    <<Jan01, "Coffee", "", <<"I", "n", "f", "i", "n", "i", "t", "y">>, "debit",
      "Food", "Checking", "", "">>
Signaling ==
    <<Jan01, "Coffee", "", <<"s", "N", "a", "N">>, "debit", "Food",
      "Checking", "", "">>
Long ==
    <<Jan03, "Coffee", "",
      <<"1", "2", "3", "4", "5", "6", "7", "8", "9", "0", "1", "2", "3", "4",
        "5", "6", "7", "8", "9", "0", "1", "2", "3", "4", "5", "6", "7", "8",
        "9">>, "debit", "Food", "Checking", "", "">>
Huge ==
    <<Jan03, "Paycheck", "", <<"9", "e", "9", "9", "9", "9", "9", "9">>,
      "credit", "Income", "Checking", "", "">>

OddRows ==
    {Reversal, TenColumns, EightColumns, IsoDated, NoNumber, NoNumberTransfer,
     BlankLine, NaNAmount, OtherDigits, Padded, Infinite, Signaling, Long,
     Huge}

\* a file as csv.reader reads it: nothing at all, or a first line (the header,
\* or a line that looks like a transaction) and up to MaxRows lines after it
FilesOver(rowset) ==
    {<<>>} \cup
    { <<h>> \o data : h \in {Header, Paycheck},
                      data \in UNION {[1..n -> rowset] : n \in 0..MaxRows} }

CsvFiles == FilesOver(GoodRows \cup OddRows)

\* the files of the runs that go on to filter: one has a transaction on each
\* of three days, one a transfer, one a row that does not load
SampleFiles ==
    {<<Header, Coffee, Paycheck, Refund>>, <<Header, Coffee, ToSavings>>,
     <<Header, IsoDated>>}

----------------------------------------------------------------------------
(* The state machine: one action per call. A run makes its first            *)
(* AccountHistory from a file or from a list of transactions, and then      *)
(* calls the filters on the objects it has.                                 *)

NoCall ==
    [op |-> "none", recv |-> 0, arg |-> NoArg, include |-> FALSE,
     rows |-> <<>>, given |-> <<>>, raised |-> "none", res |-> 0]

NoVal ==
    [expr |-> "none", lhs |-> Number(Zero, "int"), rhs |-> Number(Zero, "int"),
     list |-> <<>>, raised |-> "none", value |-> Zero, truth |-> FALSE]

Init ==
    /\ objs = <<>>
    /\ lists = <<>>
    /\ made = <<>>
    /\ call = NoCall
    /\ val = NoVal

\* Return as it would be if a filter cut down the receiver's own list and
\* handed that list to its result
ReturnSharedList(c, r) ==
    IF r.raised # "none"
    THEN /\ call' = [c EXCEPT !.raised = r.raised]
         /\ UNCHANGED <<objs, lists, made>>
    ELSE /\ lists' = IF c.recv = 0 THEN Append(lists, r.transactions)
                     ELSE [lists EXCEPT ![objs[c.recv].transactions] =
                                            r.transactions]
         /\ objs' = Append(objs, IF c.recv = 0
                                 THEN [transactions |-> Len(lists) + 1]
                                 ELSE objs[c.recv])
         /\ made' = Append(made, [op |-> c.op, parent |-> c.recv,
                                  arg |-> c.arg, include |-> c.include,
                                  given |-> c.given,
                                  initial |-> r.transactions])
         /\ call' = [c EXCEPT !.res = Len(objs) + 1]

\* What a call leaves behind. It raised: no object. It returned: a new
\* AccountHistory whose transactions is a new list (list(...), or the list
\* comprehension, of __init__).
Return(c, r) ==
    IF r.raised # "none"
    THEN /\ call' = [c EXCEPT !.raised = r.raised]
         /\ UNCHANGED <<objs, lists, made>>
    ELSE /\ lists' = Append(lists, r.transactions)
         /\ objs' = Append(objs, [transactions |-> Len(lists) + 1])
         /\ made' = Append(made, [op |-> c.op, parent |-> c.recv,
                                  arg |-> c.arg, include |-> c.include,
                                  given |-> c.given,
                                  initial |-> r.transactions])
         /\ call' = [c EXCEPT !.res = Len(objs) + 1]

\* the transactions of the object i
Contents(i) == lists[objs[i].transactions]

\* AccountHistory.from_csv(filename, include_transfers)
FromCsv(rows, include_transfers) ==
    /\ call.op = "none"
    /\ Return([NoCall EXCEPT !.op = "from_csv", !.rows = rows,
                             !.include = include_transfers],
              from_csv(rows, include_transfers))
    /\ UNCHANGED val

\* AccountHistory(transactions, include_transfers)
New(transactions, include_transfers) ==
    /\ call.op = "none"
    /\ Return([NoCall EXCEPT !.op = "AccountHistory", !.given = transactions,
                             !.include = include_transfers],
              [raised |-> "none",
               transactions |-> __init__(transactions, include_transfers)])
    /\ UNCHANGED val

\* a filter call on the object i; an exception, uncaught, has ended the run
Filter(op, i, arg, r) ==
    /\ call.raised = "none"
    /\ Len(objs) < MaxObjs
    /\ Return([NoCall EXCEPT !.op = op, !.recv = i, !.arg = arg], r)
    /\ UNCHANGED val

After(i, date) == Filter("after", i, date, after(Contents(i), date))

OnOrAfter(i, date) ==
    Filter("on_or_after", i, date, on_or_after(Contents(i), date))

Before(i, date) == Filter("before", i, date, before(Contents(i), date))

OnOrBefore(i, date) ==
    Filter("on_or_before", i, date, on_or_before(Contents(i), date))

Debits(i) == Filter("debits", i, NoArg, debits(Contents(i)))

Deposits(i) == Filter("deposits", i, NoArg, deposits(Contents(i)))

Next ==
    \/ \E f \in SampleFiles, inc \in BOOLEAN : FromCsv(f, inc)
    \/ \E ts \in TxLists, inc \in BOOLEAN : New(ts, inc)
    \/ \E i \in DOMAIN objs, d \in DateArgs : After(i, d)
    \/ \E i \in DOMAIN objs, d \in DateArgs : OnOrAfter(i, d)
    \/ \E i \in DOMAIN objs, d \in DateArgs : Before(i, d)
    \/ \E i \in DOMAIN objs, d \in DateArgs : OnOrBefore(i, d)
    \/ \E i \in DOMAIN objs : Debits(i)
    \/ \E i \in DOMAIN objs : Deposits(i)

Spec == Init /\ [][Next]_vars

\* loading a file, over the files of CsvFiles
NextCsv == \E f \in CsvFiles, inc \in BOOLEAN : FromCsv(f, inc)

SpecCsv == Init /\ [][NextCsv]_vars

----------------------------------------------------------------------------
(* Expressions over Transaction.__add__, __radd__, __lt__ and __gt__.       *)
(* A run evaluates one expression.                                          *)

\* the transactions as _parse_row makes them of the rows Reversal, Infinite,
\* Signaling, Long and Huge
ReversalTx == _parse_row(Reversal).tx
InfiniteTx == _parse_row(Infinite).tx
SignalingTx == _parse_row(Signaling).tx
LongTx == _parse_row(Long).tx
HugeTx == _parse_row(Huge).tx

Operands == TxPool \cup {ReversalTx, InfiniteTx, SignalingTx, LongTx, HugeTx}

Numbers ==
    { Number(Zero, "int"), Number(Dec(5, 0), "int"),
      Number(Dec(-125, 2), "Decimal"), Number(Dec(1, 2), "Decimal"),
      Number(Inf(0), "Decimal"), Number(NaN(0, <<>>), "Decimal"),
      Number(Dec(15, 1), "float") }

OperandLists == UNION {[1..n -> Operands] : n \in 0..MaxLen}

Value(expr, lhs, rhs, list, r) ==
    [expr |-> expr, lhs |-> lhs, rhs |-> rhs, list |-> list,
     raised |-> r.raised, value |-> r.value, truth |-> FALSE]

Truth(expr, lhs, rhs, r) ==
    [expr |-> expr, lhs |-> lhs, rhs |-> rhs, list |-> <<>>,
     raised |-> r.raised, value |-> Zero, truth |-> r.truth]

\* t + n
AddNumber(t, n) ==
    /\ val.expr = "none"
    /\ val' = Value("t+n", [tx |-> t], n, <<>>, PyAdd([tx |-> t], n))
    /\ UNCHANGED <<objs, lists, made, call>>

\* n + t
NumberAdd(n, t) ==
    /\ val.expr = "none"
    /\ val' = Value("n+t", n, [tx |-> t], <<>>, PyAdd(n, [tx |-> t]))
    /\ UNCHANGED <<objs, lists, made, call>>

\* t1 + t2
AddTransaction(t1, t2) ==
    /\ val.expr = "none"
    /\ val' = Value("t1+t2", [tx |-> t1], [tx |-> t2], <<>>,
                    PyAdd([tx |-> t1], [tx |-> t2]))
    /\ UNCHANGED <<objs, lists, made, call>>

\* sum(transactions)
Sum(transactions) ==
    /\ val.expr = "none"
    /\ val' = Value("sum", Number(Zero, "int"), Number(Zero, "int"),
                    transactions, sum(transactions))
    /\ UNCHANGED <<objs, lists, made, call>>

\* t1 < t2
LessThan(t1, t2) ==
    /\ val.expr = "none"
    /\ val' = Truth("t1<t2", [tx |-> t1], [tx |-> t2], __lt__(t1, t2))
    /\ UNCHANGED <<objs, lists, made, call>>

\* t1 > t2
GreaterThan(t1, t2) ==
    /\ val.expr = "none"
    /\ val' = Truth("t1>t2", [tx |-> t1], [tx |-> t2], __gt__(t1, t2))
    /\ UNCHANGED <<objs, lists, made, call>>

NextAdd ==
    \/ \E t \in Operands, n \in Numbers : AddNumber(t, n)
    \/ \E t \in Operands, n \in Numbers : NumberAdd(n, t)
    \/ \E t1 \in Operands, t2 \in Operands : AddTransaction(t1, t2)
    \/ \E ts \in OperandLists : Sum(ts)
    \/ \E t1 \in Operands, t2 \in Operands : LessThan(t1, t2)
    \/ \E t1 \in Operands, t2 \in Operands : GreaterThan(t1, t2)

SpecAdd == Init /\ [][NextAdd]_vars

----------------------------------------------------------------------------
(* The claims.                                                              *)

FilterOps ==
    {"after", "on_or_after", "before", "on_or_before", "debits", "deposits"}

\* the elements of a list, and how often t occurs in it
Count(list, t) == Cardinality({k \in 1..Len(list) : list[k] = t})

\* a and b partition h: every transaction of h is in exactly one of them,
\* as often as in h, and the lengths add up
Partition(h, a, b) ==
    /\ Len(a) + Len(b) = Len(h)
    /\ \A k \in 1..Len(h) :
          /\ (Count(a, h[k]) = 0) # (Count(b, h[k]) = 0)
          /\ Count(a, h[k]) + Count(b, h[k]) = Count(h, h[k])

\* the Decimal d as an expression that returned it
Returned(d) == [raised |-> "none", value |-> d]

\* the expression x + y of two Decimal expressions, and x == y as a truth
Plus(x, y) ==
    IF x.raised # "none" THEN x
    ELSE IF y.raised # "none" THEN y
    ELSE DecAdd(x.value, y.value)

Equal(x, y) ==
    /\ x.raised = "none"
    /\ y.raised = "none"
    /\ DecEq(x.value, y.value).truth

\* the sum of the signed amounts of a list
RECURSIVE Total(_)
Total(list) ==
    IF list = <<>> THEN [raised |-> "none", value |-> Zero]
    ELSE Plus(Total(SubSeq(list, 1, Len(list) - 1)), amount(list[Len(list)]))

\* x < 0 and x > 0 hold of the Decimal expression x
Negative(x) == x.raised = "none" /\ DecLT(x.value, Zero).truth
Positive(x) == x.raised = "none" /\ DecGT(x.value, Zero).truth

\* the object the object i descends from
RECURSIVE Root(_)
Root(i) == IF made[i].parent = 0 THEN i ELSE Root(made[i].parent)

HasTransfer(list) == \E k \in 1..Len(list) : is_transfer(list[k])

\* C1: debits and deposits partition every AccountHistory exactly: each of
\* its transactions is in exactly one of the two, and the lengths add up.
C1_DebitsDepositsPartition ==
    \A i \in DOMAIN objs :
        Partition(Contents(i), debits(Contents(i)).transactions,
                  deposits(Contents(i)).transactions)

\* C2: for every AccountHistory h, sum(h.debits) + sum(h.deposits) equals
\* sum(h).
C2_SumsAddUp ==
    \A i \in DOMAIN objs :
        Equal(Plus(sum(debits(Contents(i)).transactions),
                   sum(deposits(Contents(i)).transactions)),
              sum(Contents(i)))

\* C3: for every AccountHistory h and date d, on_or_after(d) and before(d)
\* partition h: no overlap and no gaps.
C3_OnOrAfterBeforePartition ==
    \A i \in DOMAIN objs, d \in DateArgs :
        AsDate(d).raised = "none" =>
            Partition(Contents(i), on_or_after(Contents(i), d).transactions,
                      before(Contents(i), d).transactions)

\* C4: an AccountHistory constructed with transfers excluded holds no
\* transaction of category "Transfer", and neither does any AccountHistory
\* obtained from it by filters.
C4_NoTransferWhenExcluded ==
    \A i \in DOMAIN objs :
        ~made[Root(i)].include => ~HasTransfer(Contents(i))

\* a filter result, not empty, of a root that was given a transfer and told
\* to exclude transfers
C4_Witness ==
    \E i \in DOMAIN objs :
        /\ made[i].parent # 0
        /\ ~made[Root(i)].include
        /\ HasTransfer(made[Root(i)].given)
        /\ Contents(i) # <<>>

\* a data row that is wrong: its column count is not 9, its date does not
\* parse, or its amount is no number
WrongRow(row) ==
    \/ Len(row) # Columns
    \/ parse_date(row[1]).raised # "none"
    \/ Decimal(row[4]).raised # "none"

DataRows(rows) == IF rows = <<>> THEN <<>> ELSE Tail(rows)

\* C5: from_csv fails, and returns no AccountHistory, whenever a data row
\* has a column count other than 9, a date that does not parse or an amount
\* that is no number.
C5_WrongRowFailsLoad ==
    (/\ call.op = "from_csv"
     /\ \E k \in 1..Len(DataRows(call.rows)) : WrongRow(DataRows(call.rows)[k]))
        => (call.raised # "none" /\ objs = <<>>)

TransferRows(rows) ==
    Cardinality({k \in 1..Len(DataRows(rows)) :
                     DataRows(rows)[k][6] = "Transfer"})

WellFormed(rows) ==
    \A k \in 1..Len(DataRows(rows)) : ~WrongRow(DataRows(rows)[k])

\* C6: for a well-formed file (a header only, and no line at all, too) the
\* length of from_csv's result is the number of lines after the first, less
\* the "Transfer" rows when transfers are excluded; the first line is never
\* parsed.
C6_LengthOfLoad ==
    (call.op = "from_csv" /\ WellFormed(call.rows)) =>
        /\ call.raised = "none"
        /\ call.res \in DOMAIN objs
        /\ __len__(Contents(call.res))
             = Len(DataRows(call.rows))
               - (IF call.include THEN 0 ELSE TransferRows(call.rows))

\* a file whose first line looks like a transaction, with a transfer among
\* its two data rows, loaded with transfers excluded
C6_Witness ==
    /\ call.op = "from_csv"
    /\ ~call.include
    /\ call.rows = <<Paycheck, Coffee, ToSavings>>
    /\ call.raised = "none"
    /\ __len__(Contents(call.res)) = 1

\* C7: a filter returns a new AccountHistory with a list of its own and
\* leaves the receiver as it was: every object still holds the transactions
\* it was made with, and no two objects share a list.
C7_FiltersLeaveReceiver ==
    /\ \A i \in DOMAIN objs : Contents(i) = made[i].initial
    /\ \A i, j \in DOMAIN objs :
          i # j => objs[i].transactions # objs[j].transactions
    /\ (call.op \in FilterOps /\ call.raised = "none") =>
          /\ call.res # call.recv
          /\ call.res = Len(objs)

\* a filter that dropped a transaction of its receiver and kept another
C7_Witness ==
    /\ call.op \in FilterOps
    /\ call.raised = "none"
    /\ call.res \in DOMAIN objs
    /\ Contents(call.res) # <<>>
    /\ Len(Contents(call.res)) < Len(Contents(call.recv))
    /\ Contents(call.recv) = made[call.recv].initial

\* the object k is h.after(d1).after(d2) with d1 < d2
AfterAfter(k) ==
    /\ made[k].op = "after"
    /\ made[k].parent # 0
    /\ made[made[k].parent].op = "after"
    /\ made[made[k].parent].parent # 0
    /\ DateLT(AsDate(made[made[k].parent].arg).date, AsDate(made[k].arg).date)

\* C8: for d1 < d2, h.after(d1).after(d2) holds the same transactions in the
\* same order as h.after(d2).
C8_AfterTwice ==
    \A k \in DOMAIN objs :
        AfterAfter(k) =>
            Contents(k)
              = after(Contents(made[made[k].parent].parent),
                      made[k].arg).transactions

\* h.after(d1).after(d2) where the first call dropped a transaction dated
\* d1 or before, the second one dated after d1 and not after d2, and a
\* transaction after d2 is left
C8_Witness ==
    \E k \in DOMAIN objs :
        /\ AfterAfter(k)
        /\ Contents(k) # <<>>
        /\ Len(Contents(k)) < Len(Contents(made[k].parent))
        /\ Len(Contents(made[k].parent))
               < Len(Contents(made[made[k].parent].parent))
        /\ \E i \in DOMAIN Contents(made[k].parent) :
               ~DateLT(AsDate(made[k].arg).date,
                       Contents(made[k].parent)[i].date)

\* the sum of the amounts that the expression val stands for
Expected ==
    CASE val.expr = "t+n" -> Plus(amount(val.lhs.tx), Returned(val.rhs.num))
      [] val.expr = "n+t" -> Plus(Returned(val.lhs.num), amount(val.rhs.tx))
      [] val.expr = "t1+t2" -> Plus(amount(val.lhs.tx), amount(val.rhs.tx))
      [] val.expr = "sum" -> Total(val.list)

\* C9: t + n, n + t and t1 + t2 all succeed and give the sum of the amounts,
\* and sum(list) gives the total signed amount, 0 for the empty list,
\* wherever Decimal has that sum (it has none of a signaling NaN, of
\* infinities of opposite sign, or above Emax).
C9_AdditionSucceeds ==
    (val.expr \in {"t+n", "n+t", "t1+t2", "sum"} /\ Expected.raised = "none")
        => (val.raised = "none" /\ val.value = Expected.value)

\* C10: of every transaction loaded from a CSV row, absolute_amount is not
\* negative, amount <= 0 when it is a debit and amount >= 0 when it is not.
C10_SignFollowsType ==
    \A i \in DOMAIN objs :
        made[i].op = "from_csv" =>
            \A k \in 1..Len(Contents(i)) :
                /\ ~Negative(Returned(Contents(i)[k].absolute_amount))
                /\ is_debit(Contents(i)[k])
                       => ~Positive(amount(Contents(i)[k]))
                /\ ~is_debit(Contents(i)[k])
                       => ~Negative(amount(Contents(i)[k]))

====
